---- MODULE Spec2Model ----
(***************************************************************************)
(* Model of the incremental JIRA sync of examples/confluence_getting_jira  *)
(* (class JiraIncrementalSync): text normalisation, change detection and   *)
(* the paged merge of fetched tickets into the stored collection; and of   *)
(* the table programs (jira_table_analyze, jira_table_processor_antigravity *)
(* and from_desktop/jira_table_processor_desktop): the status report built  *)
(* from the labels, the run of the analyzer and the reconstruction of the   *)
(* table from the words of the OCR.                                         *)
(*                                                                         *)
(* Text is a sequence of characters.  A word that the code only ever       *)
(* compares as a whole ("No content", "Unresolved", ...) is one element of *)
(* the sequence: it has no whitespace at either end, no "\r\n" and no tab, *)
(* so strip() and replace() treat it exactly like one ordinary character.  *)
(***************************************************************************)
EXTENDS Integers, Sequences, FiniteSets, TLC

VARIABLES
    existing_issue,   \* is_issue_modified: the stored record compared
    new_issue,        \* is_issue_modified / extract_issue_data: the raw ticket
    outcome,          \* "none" | "modified" | "unmodified" | "raised"
    cmp_pc,           \* "input" | "compared" | "roundtrip" | "idle"
    output_file,      \* the JSON file: [exists, data], data the array
    initial_file,     \* history: the file as it was when the run started
    batch_size,       \* sync_jira_issues parameter
    max_issues,       \* sync_jira_issues parameter
    pc,               \* "load" | "loop" | "done" | "raised" | "idle"
    existing_issues,  \* dict of load_existing_data: its values, in dict order
    updated_issues,   \* the list that is written at the end
    start_at,         \* the offset range(0, max_issues, batch_size) yields next
    batch,            \* tickets of the current page not yet processed
    delivered,        \* history: the tickets processed so far, in order
    log,              \* history: the "Updated issue" / "Added new issue" prints
    requests,         \* history: the search_issues calls that returned a page
    reads,            \* history: the calls of load_existing_data
    writes,           \* history: the times the output file was written
    impl,             \* which process_labels_and_create_status_report runs
    df,               \* the table (DataFrame): the sequence of its rows
    row_no,           \* df.iterrows(): the row the loop visits next
    report_data,      \* the list of report rows / status_df
    current_key,      \* antigravity: key of the item being aggregated
    current_labels_text, \* antigravity: text of the item being aggregated
    tpc,              \* position in the table program, "idle" outside
    reports_dir,      \* JiraTableAnalyzer.run: the directory reports/
    initial_dir,      \* history: reports/ as it was when run started
    jira_reply,       \* JiraTableAnalyzer.run: what search_issues will do
    words,            \* OCR: the boxes with text, as image_to_data gave them
    df_words,         \* OCR: the words sorted by y
    row_indices,      \* OCR: row_index of each word of df_words
    table_rows,       \* OCR: the rows of cells (each cell a list of words)
    frame             \* OCR: the DataFrame returned, [headers, rows]

cmp_vars == <<existing_issue, new_issue, outcome, cmp_pc>>

sync_vars == <<output_file, initial_file, batch_size, max_issues, pc, existing_issues,
               updated_issues, start_at, batch, delivered, log, requests,
               reads, writes>>

report_vars == <<impl, df, row_no, report_data, current_key, current_labels_text>>

run_vars == <<reports_dir, initial_dir, jira_reply>>

ocr_vars == <<words, df_words, row_indices, table_rows, frame>>

table_vars == <<tpc, report_vars, run_vars, ocr_vars>>

vars == <<cmp_vars, sync_vars, table_vars>>

----------------------------------------------------------------------------
(* Characters and texts *)

SP  == " "
TAB == "\t"
LF  == "\n"
CR  == "\r"

\* the characters str.strip() removes
Whitespace == {SP, TAB, LF, CR}

\* Python's None; "None" is not a character, so no text equals it
None == <<"None">>

NoContent     == <<"No content">>
Unresolved    == <<"Unresolved">>
NoRootCause   == <<"No root cause provided">>
Placeholder   == <<"No comments found for this issue.">>

\* Python truthiness of an optional text: None and '' are falsy
Truthy(text) == text # None /\ text # <<>>

RECURSIVE lstrip(_)
lstrip(s) ==
    IF s = <<>> THEN <<>>
    ELSE IF Head(s) \in Whitespace THEN lstrip(Tail(s)) ELSE s

RECURSIVE rstrip(_)
rstrip(s) ==
    IF s = <<>> THEN <<>>
    ELSE IF s[Len(s)] \in Whitespace THEN rstrip(SubSeq(s, 1, Len(s) - 1)) ELSE s

strip(s) == rstrip(lstrip(s))

\* str.replace('\r\n', '\n'): left to right, non-overlapping, one pass
RECURSIVE replace_crlf(_)
replace_crlf(s) ==
    IF s = <<>> THEN <<>>
    ELSE IF Len(s) >= 2 /\ s[1] = CR /\ s[2] = LF
         THEN <<LF>> \o replace_crlf(SubSeq(s, 3, Len(s)))
         ELSE <<s[1]>> \o replace_crlf(Tail(s))

\* str.replace('\t', ' ')
replace_tab(s) == [i \in 1..Len(s) |-> IF s[i] = TAB THEN SP ELSE s[i]]

clean_text(text) ==
    IF Truthy(text) THEN replace_tab(replace_crlf(strip(text))) ELSE NoContent

\* str(x) of a value that is already a string
str(x) == x

----------------------------------------------------------------------------
(* Records *)

(* A stored record is one element of the JSON array of the output file.  *)
(* dict.get(field) is None for a field that is missing and for one that  *)
(* is null, so both are the value None here.  A stored comment is a dict *)
(* with optional 'author', 'body' and 'message'.  lacks names the keys   *)
(* the JSON object does not have (their value here is None, or <<>> for  *)
(* 'comments'); comments_null says that 'comments' is present and null.  *)
StoredComment(author, body, message) ==
    [author |-> author, body |-> body, message |-> message]

StoredRecord(key, summary, description, resolution, root_cause, comments) ==
    [key |-> key, summary |-> summary, reporter |-> <<"u1">>,
     description |-> description, resolution |-> resolution,
     root_cause |-> root_cause, created_at |-> <<"t1">>, comments |-> comments,
     lacks |-> {}, comments_null |-> FALSE]

\* the keys of a stored record that is_issue_modified reads
FieldNames == {"summary", "description", "resolution", "root_cause", "comments"}

\* the record without the keys in lacks and, with null, with "comments": null
Erase(record, lacks, null) ==
    [f \in DOMAIN record |->
        IF f = "lacks" THEN lacks
        ELSE IF f = "comments_null" THEN null /\ "comments" \notin lacks
        ELSE IF f = "comments" /\ (null \/ f \in lacks) THEN <<>>
        ELSE IF f \in lacks THEN None
        ELSE record[f]]

(* A raw ticket is a jira Issue.  resolution is None or the Resolution   *)
(* resource, which the model identifies with its name (str() of a jira   *)
(* resource is its name).  customfield_12602 missing and null both read  *)
(* as None through getattr(..., None) and through the except clause.     *)
(* comment.state is "missing" (no attribute), "null" or "present".       *)
RawComment(author, body) == [author |-> author, body |-> body]

CommentField(state, comments) == [state |-> state, comments |-> comments]

RawTicket(key, summary, description, resolution, customfield_12602, comment) ==
    [key |-> key, summary |-> summary, reporter |-> <<"u1">>,
     description |-> description, resolution |-> resolution,
     customfield_12602 |-> customfield_12602, created |-> <<"t1">>,
     comment |-> comment]

----------------------------------------------------------------------------
(* extract_issue_data *)

get_custom_field_value(value) ==
    IF Truthy(value) THEN clean_text(value) ELSE None

\* line 93 evaluates fields.comment.comments on a comment that is None
extract_raises(singleIssue) == singleIssue.comment.state = "null"

extract_comments(singleIssue) ==
    IF singleIssue.comment.state = "present" /\ singleIssue.comment.comments # <<>>
    THEN [i \in 1..Len(singleIssue.comment.comments) |->
            StoredComment(singleIssue.comment.comments[i].author,
                          clean_text(singleIssue.comment.comments[i].body),
                          None)]
    ELSE <<>>

extract_issue_data(singleIssue) ==
    [key         |-> singleIssue.key,
     summary     |-> clean_text(singleIssue.summary),
     reporter    |-> IF singleIssue.reporter # None
                     THEN singleIssue.reporter ELSE <<"Unknown Reporter">>,
     description |-> clean_text(singleIssue.description),
     resolution  |-> singleIssue.resolution,
     root_cause  |-> get_custom_field_value(singleIssue.customfield_12602),
     created_at  |-> get_custom_field_value(singleIssue.created),
     comments    |-> extract_comments(singleIssue),
     lacks       |-> {},
     comments_null |-> FALSE]

----------------------------------------------------------------------------
(* is_issue_modified *)

\* safe_compare without the sentinel rules of lines 118, 126 and 134-136
safe_compare_no_sentinels(existing_value, new_value) ==
    IF existing_value = None /\ new_value = None THEN FALSE
    ELSE (IF existing_value # None THEN clean_text(str(existing_value)) ELSE None)
         # (IF new_value # None THEN clean_text(str(new_value)) ELSE None)

\* isinstance(new_value, type) is false for every field value (none is a
\* class), so lines 122-123 never rewrite new_value
safe_compare(existing_value, new_value) ==
    IF existing_value = None /\ new_value = None THEN FALSE
    ELSE IF existing_value = NoRootCause /\ new_value = None THEN FALSE
    ELSE IF existing_value = Unresolved /\ new_value = None THEN FALSE
    ELSE LET new_str == IF new_value # None THEN clean_text(str(new_value)) ELSE None
             existing_str == IF existing_value # None
                             THEN clean_text(str(existing_value)) ELSE None
         IN  IF \/ existing_str = NoContent /\ new_str = None
                \/ existing_str = None /\ new_str = NoContent
             THEN FALSE
             ELSE existing_str # new_str

\* existing_issue.get(field), line 150
stored_get(existing, field) ==
    IF field \in existing.lacks THEN None ELSE existing[field]

\* the four comparison_map fields, lines 141-154
fields_modified(existing, new) ==
    \/ safe_compare(stored_get(existing, "summary"), new.summary)
    \/ safe_compare(stored_get(existing, "description"), new.description)
    \/ safe_compare(stored_get(existing, "resolution"), new.resolution)
    \/ safe_compare(stored_get(existing, "root_cause"), new.customfield_12602)

\* existing_issue.get('comments') without the default of line 157
comments_is_none_no_default(existing) ==
    "comments" \in existing.lacks \/ existing.comments_null

\* existing_issue.get('comments', []) is None: only for "comments": null
comments_is_none(existing) ==
    "comments" \notin existing.lacks /\ existing.comments_null

\* existing_issue.get('comments', []) when it is a list
stored_comments(existing) ==
    IF "comments" \in existing.lacks THEN <<>> ELSE existing.comments

\* line 158
new_comments_of(new) ==
    IF new.comment.state = "present" THEN new.comment.comments ELSE <<>>

\* the filter testing 'body' instead of 'message'
filter_placeholders_by_body(comments) ==
    SelectSeq(comments, LAMBDA c : c.body # Placeholder)

\* lines 161-164: drops the dicts whose 'message' is the placeholder
filter_placeholders(comments) ==
    SelectSeq(comments, LAMBDA c : c.message # Placeholder)

\* the count check noticing only a shrinking comment list
comment_count_shrunk(existing_comments, new_comments) ==
    Len(existing_comments) > Len(new_comments)

\* lines 167-171
comment_count_modified(existing_comments, new_comments) ==
    /\ Len(existing_comments) # Len(new_comments)
    /\ (Len(existing_comments) > 0 \/ Len(new_comments) > 0)

Min(a, b) == IF a < b THEN a ELSE b

\* the content check comparing the bodies as they are
comment_content_modified_raw(existing_comments, new_comments) ==
    /\ new_comments # <<>>
    /\ \E i \in 1..Min(Len(existing_comments), Len(new_comments)) :
          existing_comments[i].body # new_comments[i].body

\* the content check comparing the authors as well as the bodies
comment_content_modified_with_author(existing_comments, new_comments) ==
    /\ new_comments # <<>>
    /\ \E i \in 1..Min(Len(existing_comments), Len(new_comments)) :
          \/ clean_text(existing_comments[i].body) # clean_text(new_comments[i].body)
          \/ existing_comments[i].author # new_comments[i].author

\* old_comment.get('body', ''): '' and None both clean to "No content"
\* lines 174-178: zip stops at the shorter list
comment_content_modified(existing_comments, new_comments) ==
    /\ new_comments # <<>>
    /\ \E i \in 1..Min(Len(existing_comments), Len(new_comments)) :
          clean_text(existing_comments[i].body) # clean_text(new_comments[i].body)

comments_modified(existing, new) ==
    LET existing_comments == filter_placeholders(stored_comments(existing))
        new_comments == new_comments_of(new)
    IN  \/ comment_count_modified(existing_comments, new_comments)
        \/ comment_content_modified(existing_comments, new_comments)

\* lines 161-164 iterate over None (TypeError) once no field returned True
is_issue_modified_raises(existing, new) ==
    ~fields_modified(existing, new) /\ comments_is_none(existing)

is_issue_modified(existing, new) ==
    fields_modified(existing, new) \/ comments_modified(existing, new)

----------------------------------------------------------------------------
(* Inputs of the comparison: one stored record and one raw ticket.  One   *)
(* field (the focus) ranges over every pair of sample values while each   *)
(* other field takes an agreeing or a differing pair.                     *)

MaxComments == 2

Texts ==
    { <<>>, <<SP>>, <<"a">>, <<"b">>, <<"a", CR, LF>>, <<"a", TAB, "b">>,
      <<"a", CR, CR, LF, "b">>, NoContent, Unresolved, NoRootCause }

OptTexts == Texts \cup {None}

Focus == {"summary", "description", "resolution", "root_cause", "comments", "lacks"}

\* the keys the stored record lacks, and whether its 'comments' is null
LacksOf(focus) == IF focus = "lacks" THEN SUBSET FieldNames ELSE {{}}

NullOf(focus) == IF focus = "lacks" THEN BOOLEAN ELSE {FALSE}

SidePairs == { << <<"a">>, <<"a">> >>, << <<"a">>, <<"b">> >> }

\* with the focus on lacking keys the fetched value is there or absent
LackPairs == { << <<"a">>, <<"a">> >>, << <<"a">>, None >> }

FieldPairs(focus, field) ==
    IF focus = field THEN OptTexts \X OptTexts
    ELSE IF focus = "lacks" THEN LackPairs ELSE SidePairs

SeqsUpTo(S, n) == UNION { [1..k -> S] : k \in 0..n }

StoredComments ==
    { StoredComment(<<"u1">>, <<"a">>, None),
      StoredComment(<<"u1">>, <<"b">>, None),
      StoredComment(None, Placeholder, None),
      StoredComment(None, None, Placeholder) }

RawComments ==
    { RawComment(<<"u1">>, <<"a">>), RawComment(<<"u2">>, <<"a">>),
      RawComment(<<"u1">>, <<"b">>), RawComment(<<"u1">>, <<"a", CR, LF>>),
      RawComment(<<"u1">>, <<"a", CR, CR, LF, "b">>) }

CommentFields ==
    { CommentField("missing", <<>>), CommentField("null", <<>>) }
    \cup { CommentField("present", cs) : cs \in SeqsUpTo(RawComments, MaxComments) }

CommentPairs(focus) ==
    IF focus = "comments"
    THEN SeqsUpTo(StoredComments, MaxComments) \X CommentFields
    ELSE { << <<>>, CommentField("present", <<>>) >>,
           << <<StoredComment(<<"u1">>, <<"a">>, None)>>,
              CommentField("present", <<RawComment(<<"u1">>, <<"b">>)>>) >> }

\* the values the variables of the other specifications keep
IdleReport ==
    /\ impl = "none"
    /\ df = <<>>
    /\ row_no = 1
    /\ report_data = <<>>
    /\ current_key = None
    /\ current_labels_text = <<>>

IdleRun ==
    /\ reports_dir = [exists |-> FALSE, files |-> <<>>]
    /\ initial_dir = reports_dir
    /\ jira_reply = [raises |-> FALSE, issues |-> <<>>]

IdleOcr ==
    /\ words = <<>>
    /\ df_words = <<>>
    /\ row_indices = <<>>
    /\ table_rows = <<>>
    /\ frame = None

IdleTable == tpc = "idle" /\ IdleReport /\ IdleRun /\ IdleOcr

IdleCmp ==
    /\ existing_issue = StoredRecord("K1", None, None, None, None, <<>>)
    /\ new_issue = RawTicket("K1", None, None, None, None, CommentField("missing", <<>>))
    /\ outcome = "none"
    /\ cmp_pc = "idle"

IdleSync ==
    /\ output_file = [exists |-> FALSE, data |-> <<>>]
    /\ initial_file = output_file
    /\ batch_size = 1
    /\ max_issues = 0
    /\ pc = "idle"
    /\ existing_issues = <<>>
    /\ updated_issues = <<>>
    /\ start_at = 0
    /\ batch = <<>>
    /\ delivered = <<>>
    /\ log = <<>>
    /\ requests = <<>>
    /\ reads = 0
    /\ writes = 0

InitCmp ==
    /\ \E focus \in Focus :
       \E sm \in FieldPairs(focus, "summary"),
          ds \in FieldPairs(focus, "description"),
          rs \in FieldPairs(focus, "resolution"),
          rc \in FieldPairs(focus, "root_cause"),
          cm \in CommentPairs(focus),
          lk \in LacksOf(focus),
          nl \in NullOf(focus) :
          /\ existing_issue =
                Erase(StoredRecord("K1", sm[1], ds[1], rs[1], rc[1], cm[1]), lk, nl)
          /\ new_issue = RawTicket("K1", sm[2], ds[2], rs[2], rc[2], cm[2])
    /\ outcome = "none"
    /\ cmp_pc = "input"
    /\ IdleSync
    /\ IdleTable

Outcome(modified) == IF modified THEN "modified" ELSE "unmodified"

\* what a call of is_issue_modified ends with
Compare(existing, new) ==
    IF is_issue_modified_raises(existing, new) THEN "raised"
    ELSE Outcome(is_issue_modified(existing, new))

\* is_issue_modified(existing_issue, new_issue)
CheckModified ==
    /\ UNCHANGED <<sync_vars, table_vars>>
    /\ cmp_pc = "input"
    /\ outcome' = Compare(existing_issue, new_issue)
    /\ cmp_pc' = "compared"
    /\ UNCHANGED <<existing_issue, new_issue>>

\* is_issue_modified(extract_issue_data(new_issue), new_issue): the record a
\* run stores for a ticket, compared with the same ticket by the next run
ExtractAndCheck ==
    /\ UNCHANGED <<sync_vars, table_vars>>
    /\ cmp_pc = "input"
    /\ cmp_pc' = "roundtrip"
    /\ UNCHANGED new_issue
    /\ IF extract_raises(new_issue)
       THEN outcome' = "raised" /\ UNCHANGED existing_issue
       ELSE /\ existing_issue' = extract_issue_data(new_issue)
            /\ outcome' = Compare(existing_issue', new_issue)

NextCmp == CheckModified \/ ExtractAndCheck

SpecCmp == InitCmp /\ [][NextCmp]_vars

----------------------------------------------------------------------------
(* sync_jira_issues *)

MaxIssues    == 3
MaxBatchSize == 2
MaxDelivered == 3

\* a stored record without a 'key'
NoKey == "(no key)"

Keys == {"K1", "K2"}

SyncStored(key, summary) == StoredRecord(key, summary, NoContent, None, None, <<>>)

SyncTicket(key, summary, state) ==
    RawTicket(key, summary, None, None, None, CommentField(state, <<>>))

\* the sample contents of the output file before the run
StoredFiles ==
    { <<>>,
      <<SyncStored("K1", <<"a">>)>>,
      <<SyncStored("K1", <<>>)>>,
      <<SyncStored("K1", <<"a">>), SyncStored("K2", <<"a">>)>>,
      <<SyncStored("K1", <<"a">>), SyncStored("K2", <<"a">>), SyncStored("K1", <<"b">>)>>,
      <<SyncStored("K1", <<"a">>), SyncStored(NoKey, <<"a">>)>>,
      <<Erase(SyncStored("K1", <<"a">>), {}, TRUE)>> }

\* the tickets the source may deliver
SyncTickets ==
    { SyncTicket(k, sm, "present") : k \in Keys, sm \in {<<"a">>, <<"b">>} }
    \cup { SyncTicket("K1", <<SP>>, "present"), SyncTicket("K2", <<"a">>, "null") }

KeysOf(records) == { records[i].key : i \in 1..Len(records) }

\* existing_issues[key]
Lookup(records, key) ==
    records[CHOOSE i \in 1..Len(records) : records[i].key = key]

\* {issue['key']: issue for issue in existing_data}: a key keeps the place of
\* its first record and the value of its last one
RECURSIVE dict_of(_)
dict_of(data) ==
    IF data = <<>> THEN <<>>
    ELSE LET init == dict_of(SubSeq(data, 1, Len(data) - 1))
             last == data[Len(data)]
         IN  IF last.key \in KeysOf(init)
             THEN [i \in 1..Len(init) |->
                     IF init[i].key = last.key THEN last ELSE init[i]]
             ELSE Append(init, last)

\* issue['key'] raises KeyError on a record without the key
load_raises(file) ==
    file.exists /\ \E i \in 1..Len(file.data) : file.data[i].key = NoKey

load_existing_data(file) == IF file.exists THEN dict_of(file.data) ELSE <<>>

Init ==
    /\ IdleCmp
    /\ IdleTable
    /\ output_file \in
          {[exists |-> FALSE, data |-> <<>>]}
          \cup { [exists |-> TRUE, data |-> d] : d \in StoredFiles }
    /\ initial_file = output_file
    /\ batch_size \in 1..MaxBatchSize
    /\ max_issues \in 0..MaxIssues
    /\ pc = "load"
    /\ existing_issues = <<>>
    /\ updated_issues = <<>>
    /\ start_at = 0
    /\ batch = <<>>
    /\ delivered = <<>>
    /\ log = <<>>
    /\ requests = <<>>
    /\ reads = 0
    /\ writes = 0

\* lines 190-191
Load ==
    /\ UNCHANGED <<cmp_vars, table_vars>>
    /\ pc = "load"
    /\ IF load_raises(output_file)
       THEN pc' = "raised" /\ UNCHANGED <<existing_issues, updated_issues>>
       ELSE /\ existing_issues' = load_existing_data(output_file)
            /\ updated_issues' = existing_issues'
            /\ pc' = "loop"
    /\ reads' = reads + 1
    /\ UNCHANGED <<output_file, initial_file, batch_size, max_issues, start_at, batch,
                   delivered, log, requests, writes>>

\* search_issues(startAt=..., maxResults=...) and the size of the page it gave
Request(startAt, maxResults, returned) ==
    [startAt |-> startAt, maxResults |-> maxResults, returned |-> returned]

\* lines 194-204: the next page, of at most batch_size tickets
Fetch ==
    /\ UNCHANGED <<cmp_vars, table_vars>>
    /\ pc = "loop"
    /\ batch = <<>>
    /\ start_at < max_issues
    /\ \E page \in SeqsUpTo(SyncTickets,
                            Min(batch_size, MaxDelivered - Len(delivered))) :
          /\ batch' = page
          /\ requests' = Append(requests, Request(start_at, batch_size, Len(page)))
    /\ start_at' = start_at + batch_size
    /\ UNCHANGED <<output_file, initial_file, batch_size, max_issues, pc, existing_issues,
                   updated_issues, delivered, log, reads, writes>>

\* search_issues raises: the exception leaves sync_jira_issues
FetchRaises ==
    /\ UNCHANGED <<cmp_vars, table_vars>>
    /\ pc = "loop"
    /\ batch = <<>>
    /\ start_at < max_issues
    /\ pc' = "raised"
    /\ UNCHANGED <<output_file, initial_file, batch_size, max_issues, existing_issues,
                   updated_issues, start_at, batch, delivered, log, requests, reads,
                   writes>>

Event(type, key) == [type |-> type, key |-> key]

\* the replacement without the append of line 218
replace_issue_no_append(issues, issue_data) ==
    SelectSeq(issues, LAMBDA issue : issue.key # issue_data.key)

\* the replacement without the filter of lines 215-217
replace_issue_no_filter(issues, issue_data) == Append(issues, issue_data)

\* the replacement with the filter's test inverted
replace_issue_inverted(issues, issue_data) ==
    Append(SelectSeq(issues, LAMBDA issue : issue.key = issue_data.key), issue_data)

\* lines 215-218
replace_issue(issues, issue_data) ==
    Append(SelectSeq(issues, LAMBDA issue : issue.key # issue_data.key), issue_data)

\* the loop over the page taking the tickets from its end
ProcessIssueFromEnd ==
    /\ UNCHANGED <<cmp_vars, table_vars>>
    /\ pc = "loop"
    /\ batch # <<>>
    /\ LET singleIssue == batch[Len(batch)]
       IN  IF \/ extract_raises(singleIssue)
              \/ /\ singleIssue.key \in KeysOf(existing_issues)
                 /\ is_issue_modified_raises(
                        Lookup(existing_issues, singleIssue.key), singleIssue)
           THEN /\ pc' = "raised"
                /\ UNCHANGED <<updated_issues, log, batch, delivered>>
           ELSE /\ pc' = pc
                /\ batch' = SubSeq(batch, 1, Len(batch) - 1)
                /\ delivered' = Append(delivered, singleIssue)
                /\ LET issue_data == extract_issue_data(singleIssue)
                   IN  IF /\ singleIssue.key \in KeysOf(existing_issues)
                          /\ is_issue_modified(Lookup(existing_issues, singleIssue.key),
                                               singleIssue)
                       THEN /\ updated_issues' = replace_issue(updated_issues, issue_data)
                            /\ log' = Append(log, Event("Updated", singleIssue.key))
                       ELSE IF singleIssue.key \notin KeysOf(existing_issues)
                       THEN /\ updated_issues' = Append(updated_issues, issue_data)
                            /\ log' = Append(log, Event("Added", singleIssue.key))
                       ELSE UNCHANGED <<updated_issues, log>>
    /\ UNCHANGED <<output_file, initial_file, batch_size, max_issues, existing_issues,
                   start_at, requests, reads, writes>>

\* lines 207-224: one iteration of the loop over the page
ProcessIssue ==
    /\ UNCHANGED <<cmp_vars, table_vars>>
    /\ pc = "loop"
    /\ batch # <<>>
    /\ LET singleIssue == Head(batch)
       IN  IF \/ extract_raises(singleIssue)
              \/ /\ singleIssue.key \in KeysOf(existing_issues)
                 /\ is_issue_modified_raises(
                        Lookup(existing_issues, singleIssue.key), singleIssue)
           THEN /\ pc' = "raised"
                /\ UNCHANGED <<updated_issues, log, batch, delivered>>
           ELSE /\ pc' = pc
                /\ batch' = Tail(batch)
                /\ delivered' = Append(delivered, singleIssue)
                /\ LET issue_data == extract_issue_data(singleIssue)
                   IN  IF /\ singleIssue.key \in KeysOf(existing_issues)
                          /\ is_issue_modified(Lookup(existing_issues, singleIssue.key),
                                               singleIssue)
                       THEN /\ updated_issues' = replace_issue(updated_issues, issue_data)
                            /\ log' = Append(log, Event("Updated", singleIssue.key))
                       ELSE IF singleIssue.key \notin KeysOf(existing_issues)
                       THEN /\ updated_issues' = Append(updated_issues, issue_data)
                            /\ log' = Append(log, Event("Added", singleIssue.key))
                       ELSE UNCHANGED <<updated_issues, log>>
    /\ UNCHANGED <<output_file, initial_file, batch_size, max_issues, existing_issues,
                   start_at, requests, reads, writes>>

\* the write placed inside the loop over the pages
WriteBeforeLastPage ==
    /\ UNCHANGED <<cmp_vars, table_vars>>
    /\ pc = "loop"
    /\ batch = <<>>
    /\ output_file' = [exists |-> TRUE, data |-> updated_issues]
    /\ writes' = writes + 1
    /\ pc' = "done"
    /\ UNCHANGED <<initial_file, batch_size, max_issues, existing_issues,
                   updated_issues, start_at, batch, delivered, log, requests, reads>>

\* lines 227-228, after the last page
Write ==
    /\ UNCHANGED <<cmp_vars, table_vars>>
    /\ pc = "loop"
    /\ batch = <<>>
    /\ start_at >= max_issues
    /\ output_file' = [exists |-> TRUE, data |-> updated_issues]
    /\ writes' = writes + 1
    /\ pc' = "done"
    /\ UNCHANGED <<initial_file, batch_size, max_issues, existing_issues,
                   updated_issues, start_at, batch, delivered, log, requests, reads>>

Next == Load \/ Fetch \/ FetchRaises \/ ProcessIssue \/ Write

Spec == Init /\ [][Next]_vars

----------------------------------------------------------------------------
(* Properties of is_issue_modified, checked under SpecCmp *)

\* the stored and the fetched value of a field are the same value
SameSummary     == existing_issue.summary = new_issue.summary
SameDescription == existing_issue.description = new_issue.description
SameResolution  == existing_issue.resolution = new_issue.resolution
SameRootCause   == existing_issue.root_cause = new_issue.customfield_12602

FetchedComments ==
    IF new_issue.comment.state = "present" THEN new_issue.comment.comments ELSE <<>>

\* the stored comments that are not a {'message': placeholder} entry
RealStoredCount ==
    Cardinality({ i \in 1..Len(existing_issue.comments) :
                    existing_issue.comments[i].message # Placeholder })

\* the stored record has a comment list: 'comments' is there and not null
StoredHasList ==
    "comments" \notin existing_issue.lacks /\ ~existing_issue.comments_null

SameComments ==
    /\ StoredHasList
    /\ Len(existing_issue.comments) = Len(FetchedComments)
    /\ \A i \in 1..Len(FetchedComments) :
          /\ existing_issue.comments[i].body = FetchedComments[i].body
          /\ existing_issue.comments[i].message = None

NoCommentsEitherSide == RealStoredCount = 0 /\ Len(FetchedComments) = 0

(* C1: a record produced by extract_issue_data from a ticket is never     *)
(* reported as modified when compared with that same ticket.              *)
C1_RoundTripUnmodified ==
    (cmp_pc = "roundtrip" /\ outcome # "raised") => outcome = "unmodified"

(* C7: with resolution, root_cause and comments the same on both sides,   *)
(* is_issue_modified is true exactly when the normalised summaries or the *)
(* normalised descriptions differ.                                        *)
C7_TextFieldsIffNormalizedDiffer ==
    (cmp_pc = "compared" /\ SameResolution /\ SameRootCause /\ SameComments)
    => (outcome = "modified"
        <=> \/ clean_text(existing_issue.summary) # clean_text(new_issue.summary)
            \/ clean_text(existing_issue.description)
                 # clean_text(new_issue.description))

(* C8: stored "Unresolved" against no fetched resolution is no change     *)
(* when nothing else differs; any other stored resolution name against no *)
(* fetched resolution, and no stored resolution against a fetched         *)
(* resolution name, is a change.                                          *)
C8_ResolutionSentinel ==
    cmp_pc = "compared" =>
    /\ ( /\ existing_issue.resolution = Unresolved
         /\ new_issue.resolution = None
         /\ SameSummary /\ SameDescription /\ SameRootCause /\ SameComments )
       => outcome = "unmodified"
    /\ ( /\ existing_issue.resolution \notin {None, <<>>, Unresolved}
         /\ new_issue.resolution = None )
       => outcome = "modified"
    /\ ( /\ existing_issue.resolution = None
         /\ new_issue.resolution \notin {None, <<>>} )
       => outcome = "modified"

\* the three root-cause cases of C9
RootCauseCaseA ==
    existing_issue.root_cause = NoRootCause /\ new_issue.customfield_12602 = None
RootCauseCaseB ==
    existing_issue.root_cause = NoContent /\ new_issue.customfield_12602 = None
RootCauseCaseC ==
    /\ existing_issue.root_cause = None
    /\ new_issue.customfield_12602 # None
    /\ clean_text(new_issue.customfield_12602) = NoContent

(* C9: a stored "No root cause provided" or "No content" against an       *)
(* absent fetched root cause, and an absent stored root cause against a   *)
(* fetched one that normalises to "No content", is not a change.          *)
C9_RootCauseSentinels ==
    ( /\ cmp_pc = "compared"
      /\ RootCauseCaseA \/ RootCauseCaseB \/ RootCauseCaseC
      /\ SameSummary /\ SameDescription /\ SameResolution /\ SameComments )
    => outcome = "unmodified"

C9_Witness ==
    /\ cmp_pc = "compared"
    /\ RootCauseCaseC
    /\ new_issue.customfield_12602 = <<>>
    /\ SameSummary /\ SameDescription /\ SameResolution /\ SameComments
    /\ outcome = "unmodified"

(* C10: a filtered stored comment count that differs from the fetched     *)
(* comment count is a modification; with both counts 0 and the other      *)
(* fields the same, nothing is reported.                                  *)
C10_CommentCountRule ==
    (cmp_pc = "compared" /\ ~existing_issue.comments_null) =>
    /\ RealStoredCount # Len(FetchedComments) => outcome = "modified"
    /\ ( /\ NoCommentsEitherSide
         /\ SameSummary /\ SameDescription /\ SameResolution /\ SameRootCause )
       => outcome = "unmodified"

C10_Witness ==
    /\ cmp_pc = "compared"
    /\ RealStoredCount = 1
    /\ Len(FetchedComments) = 2
    /\ existing_issue.comments[1].body = FetchedComments[1].body
    /\ SameSummary /\ SameDescription /\ SameResolution /\ SameRootCause
    /\ outcome = "modified"

SameFields == SameSummary /\ SameDescription /\ SameResolution /\ SameRootCause

\* the stored comments left when the {'message': placeholder} entries are dropped
RealStored ==
    SelectSeq(existing_issue.comments, LAMBDA c : c.message # Placeholder)

\* the real stored comments and the fetched ones have the same bodies
RealStoredMatchFetched ==
    /\ Len(RealStored) = Len(FetchedComments)
    /\ \A i \in 1..Len(FetchedComments) : RealStored[i].body = FetchedComments[i].body

(* C11 as stated: a stored list of one entry whose body is the placeholder *)
(* string, against a ticket without comments and with the other fields    *)
(* the same, is not a modification.                                       *)
C11_PlaceholderBodyIgnored ==
    ( /\ cmp_pc = "compared"
      /\ StoredHasList
      /\ Len(existing_issue.comments) = 1
      /\ existing_issue.comments[1].body = Placeholder
      /\ Len(FetchedComments) = 0
      /\ SameFields )
    => outcome = "unmodified"

(* C11 amended: the entries whose 'message' is the placeholder string do   *)
(* not count: when the remaining stored comments match the fetched ones   *)
(* (none against none included) and the other fields are the same, the    *)
(* ticket is not modified.                                                *)
C11_PlaceholderMessageIgnored ==
    ( /\ cmp_pc = "compared"
      /\ StoredHasList
      /\ \E i \in 1..Len(existing_issue.comments) :
            existing_issue.comments[i].message = Placeholder
      /\ RealStoredMatchFetched
      /\ SameFields )
    => outcome = "unmodified"

C11_Witness ==
    /\ cmp_pc = "compared"
    /\ existing_issue.comments = <<StoredComment(None, None, Placeholder)>>
    /\ FetchedComments = <<>>
    /\ SameFields
    /\ outcome = "unmodified"

(* C12: with as many real stored comments as fetched ones and the other   *)
(* fields the same, the ticket is modified exactly when the normalised    *)
(* bodies differ at some position.                                        *)
C12_PositionalCommentDiff ==
    ( /\ cmp_pc = "compared"
      /\ StoredHasList
      /\ Len(RealStored) = Len(FetchedComments)
      /\ SameFields )
    => ( outcome = "modified"
         <=> \E i \in 1..Len(FetchedComments) :
                clean_text(RealStored[i].body) # clean_text(FetchedComments[i].body) )

C12_Witness ==
    /\ cmp_pc = "compared"
    /\ StoredHasList
    /\ Len(RealStored) = 1
    /\ Len(FetchedComments) = 1
    /\ RealStored[1].body = <<"a">>
    /\ FetchedComments[1].body = <<"a", CR, LF>>
    /\ SameFields
    /\ outcome = "unmodified"

\* a result clean_text is claimed to give
Normalized(text) ==
    /\ text # <<>>
    /\ text[1] \notin Whitespace
    /\ text[Len(text)] \notin Whitespace
    /\ \A i \in 1..Len(text) : text[i] # TAB
    /\ \A i \in 1..(Len(text) - 1) : ~(text[i] = CR /\ text[i + 1] = LF)

\* an input that is absent, empty, or empty once trimmed
EmptyInput(text) ==
    text = None \/ \A i \in 1..Len(text) : text[i] \in Whitespace

(* C13: the summary and the description that extract_issue_data stores,   *)
(* clean_text of the fetched ones, have no whitespace at either end, no   *)
(* "\r\n", no tab, are never empty, and are "No content" for an input     *)
(* that is absent, empty or empty after trimming.                         *)
C13_CleanTextNormalizes ==
    (cmp_pc = "roundtrip" /\ outcome # "raised") =>
    /\ Normalized(existing_issue.summary)
    /\ Normalized(existing_issue.description)
    /\ EmptyInput(new_issue.summary) => existing_issue.summary = NoContent
    /\ EmptyInput(new_issue.description) => existing_issue.description = NoContent

\* a sentinel of another field stored in the field, the fetched value absent
ForeignSentinel(stored, fetched, sentinels) ==
    stored \in sentinels /\ fetched = None

(* C14: "Unresolved" outside resolution and "No root cause provided"      *)
(* outside root_cause are ordinary values: stored against an absent       *)
(* fetched value they are a modification.                                 *)
C14_SentinelScope ==
    ( /\ cmp_pc = "compared"
      /\ existing_issue.lacks = {}
      /\ \/ ForeignSentinel(existing_issue.summary, new_issue.summary,
                            {Unresolved, NoRootCause})
         \/ ForeignSentinel(existing_issue.description, new_issue.description,
                            {Unresolved, NoRootCause})
         \/ ForeignSentinel(existing_issue.resolution, new_issue.resolution,
                            {NoRootCause})
         \/ ForeignSentinel(existing_issue.root_cause, new_issue.customfield_12602,
                            {Unresolved}) )
    => outcome = "modified"

\* the fetched ticket has no resolution, no root cause or no comment list
LacksOptional ==
    \/ new_issue.resolution = None
    \/ new_issue.customfield_12602 = None
    \/ new_issue.comment.state # "present"

(* C16: a ticket without an optional field goes through                   *)
(* extract_issue_data and is_issue_modified without raising, and the      *)
(* record extracted has the absent value (no comments) for the field.     *)
C16_OptionalFieldsTolerated ==
    /\ (cmp_pc = "compared" /\ LacksOptional /\ ~existing_issue.comments_null)
       => outcome # "raised"
    /\ (cmp_pc = "roundtrip" /\ LacksOptional) =>
          /\ outcome # "raised"
          /\ new_issue.resolution = None => existing_issue.resolution = None
          /\ new_issue.customfield_12602 = None => existing_issue.root_cause = None
          /\ new_issue.comment.state # "present" => existing_issue.comments = <<>>

\* the stored record with its missing keys present and null
Filled == [existing_issue EXCEPT !.lacks = {}]

(* C17: a stored record lacking some of summary, description, resolution, *)
(* root_cause and comments is compared without raising and with the same  *)
(* result as the record holding null for them (no comments for a missing  *)
(* 'comments'); lacking all of them against a ticket with none of them,   *)
(* it is not modified.                                                    *)
C17_MissingStoredFields ==
    ( /\ cmp_pc = "compared"
      /\ existing_issue.lacks # {}
      /\ ~existing_issue.comments_null )
    => /\ outcome # "raised"
       /\ outcome = Outcome(is_issue_modified(Filled, new_issue))
       /\ ( /\ existing_issue.lacks = FieldNames
            /\ new_issue.summary = None /\ new_issue.description = None
            /\ new_issue.resolution = None /\ new_issue.customfield_12602 = None
            /\ FetchedComments = <<>> )
          => outcome = "unmodified"

C17_Witness ==
    /\ cmp_pc = "compared"
    /\ existing_issue.lacks = FieldNames
    /\ new_issue.summary = None
    /\ FetchedComments = <<>>
    /\ outcome = "unmodified"

----------------------------------------------------------------------------
(* Properties of sync_jira_issues, checked under Spec *)

Range(seq) == { seq[i] : i \in 1..Len(seq) }

UniqueKeys(records) ==
    \A i, j \in 1..Len(records) : records[i].key = records[j].key => i = j

CountKey(records, key) == Cardinality({ i \in 1..Len(records) : records[i].key = key })

CountEvent(type, key) == Cardinality({ i \in 1..Len(log) : log[i] = Event(type, key) })

DeliveredKeys == KeysOf(delivered)

\* the run has loaded the stored collection
Loaded == pc \in {"loop", "done"}

(* C2: after loading, every key of the loaded collection stays in the     *)
(* in-memory collection, which never has fewer records than the loaded    *)
(* one, and the same holds of the array that is written.                  *)
C2_MergeNeverDeletes ==
    /\ Loaded =>
          /\ KeysOf(existing_issues) \subseteq KeysOf(updated_issues)
          /\ Len(updated_issues) >= Cardinality(KeysOf(existing_issues))
    /\ pc = "done" =>
          /\ KeysOf(existing_issues) \subseteq KeysOf(output_file.data)
          /\ Len(output_file.data) >= Cardinality(KeysOf(existing_issues))

C2_Witness ==
    /\ pc = "done"
    /\ Len(existing_issues) = 2
    /\ \E i \in 1..Len(log) : log[i].type = "Updated"
    /\ KeysOf(existing_issues) \subseteq KeysOf(output_file.data)

(* C3: every delivered key that is not in the loaded collection has       *)
(* exactly one 'Added' event and exactly one record in the collection.    *)
C3_AddedExactlyOnce ==
    Loaded =>
    \A k \in DeliveredKeys \ KeysOf(existing_issues) :
        CountEvent("Added", k) = 1 /\ CountKey(updated_issues, k) = 1

(* C4: with unique keys in the stored file, the in-memory collection and  *)
(* the written array hold at most one record per key.                     *)
C4_KeysUnique ==
    (initial_file.exists /\ UniqueKeys(initial_file.data)) =>
    /\ Loaded => UniqueKeys(updated_issues)
    /\ pc = "done" => UniqueKeys(output_file.data)

\* the ticket processed last
LastDelivered == delivered[Len(delivered)]

LastWasModifiedExisting ==
    /\ Loaded
    /\ delivered # <<>>
    /\ LastDelivered.key \in KeysOf(existing_issues)
    /\ is_issue_modified(Lookup(existing_issues, LastDelivered.key), LastDelivered)

(* C5: after a ticket with a stored key and is_issue_modified true is     *)
(* processed, the collection holds exactly one record with that key, the  *)
(* record extracted from the ticket, and the last event is its 'Updated'. *)
C5_ModifiedIsReplaced ==
    LastWasModifiedExisting =>
    /\ CountKey(updated_issues, LastDelivered.key) = 1
    /\ Lookup(updated_issues, LastDelivered.key) = extract_issue_data(LastDelivered)
    /\ log # <<>>
    /\ log[Len(log)] = Event("Updated", LastDelivered.key)

C5_Witness ==
    /\ LastWasModifiedExisting
    /\ Len(existing_issues) = 2
    /\ Len(delivered) = 2
    /\ log[Len(log)] = Event("Updated", LastDelivered.key)

\* the stored record is not delivered, or only by tickets it is unmodified for
Untouched(record) ==
    \A i \in 1..Len(delivered) :
        delivered[i].key = record.key => ~is_issue_modified(record, delivered[i])

(* C6: a stored record that no delivered ticket modifies is in the        *)
(* written array with every field as stored, and has no event.            *)
C6_FrameCondition ==
    pc = "done" =>
    \A i \in 1..Len(existing_issues) :
        Untouched(existing_issues[i]) =>
        /\ \E j \in 1..Len(output_file.data) : output_file.data[j] = existing_issues[i]
        /\ \A j \in 1..Len(log) : log[j].key # existing_issues[i].key

C6_Witness ==
    /\ pc = "done"
    /\ Len(existing_issues) = 2
    /\ Len(log) > 0
    /\ \E i \in 1..Len(existing_issues) :
          /\ Untouched(existing_issues[i])
          /\ existing_issues[i].key \in DeliveredKeys
          /\ \E j \in 1..Len(output_file.data) : output_file.data[j] = existing_issues[i]

\* the stored file holds a record without a key
HasMalformed(file) ==
    file.exists /\ \E i \in 1..Len(file.data) : file.data[i].key = NoKey

(* C15: loading a stored file that holds a record without a key does not  *)
(* raise: the record is skipped, the records with a key are loaded and     *)
(* the run goes on to the pages.                                          *)
C15_MalformedRecordSkipped ==
    [][ (pc = "load" /\ HasMalformed(output_file))
        => /\ pc' = "loop"
           /\ KeysOf(existing_issues') = KeysOf(output_file.data) \ {NoKey} ]_vars

\* the pages range(0, max_issues, batch_size) asks for
NumPages == (max_issues + batch_size - 1) \div batch_size

(* C18: the store is read once, before any page is requested, and written *)
(* once, after the last page was requested and processed; until then, and *)
(* in a run that raised, the file is as it was at the start.              *)
C18_StoreLifecycle ==
    /\ reads <= 1 /\ writes <= 1
    /\ pc = "load" => (reads = 0 /\ requests = <<>>)
    /\ requests # <<>> => reads = 1
    /\ writes = 1 <=> pc = "done"
    /\ pc = "done" =>
          /\ reads = 1
          /\ Len(requests) = NumPages
          /\ batch = <<>>
          /\ output_file = [exists |-> TRUE, data |-> updated_issues]
    /\ writes = 0 => output_file = initial_file
    /\ pc = "raised" => (writes = 0 /\ output_file = initial_file)

C18_Witness ==
    /\ pc = "done"
    /\ reads = 1
    /\ writes = 1
    /\ Len(requests) >= 2
    /\ log # <<>>
    /\ output_file # initial_file

(* C19: after a page that returned fewer tickets than were asked for, no  *)
(* further page is requested.                                             *)
C19_StopAtShortPage ==
    \A i \in 1..Len(requests) :
        requests[i].returned < requests[i].maxResults => i = Len(requests)

RECURSIVE SumMaxResults(_)
SumMaxResults(reqs) ==
    IF reqs = <<>> THEN 0 ELSE Head(reqs).maxResults + SumMaxResults(Tail(reqs))

(* C20: the pages are requested at the offsets 0, batch_size,             *)
(* 2*batch_size, ... below max_issues, and the issues asked for over the   *)
(* run (the sum of maxResults) do not exceed max_issues.                   *)
C20_MaxIssuesBoundsRetrieval ==
    /\ \A i \in 1..Len(requests) :
          /\ requests[i].startAt = (i - 1) * batch_size
          /\ requests[i].startAt < max_issues
    /\ SumMaxResults(requests) <= max_issues

(* C21: the ticket processed is always the first one of the page not yet  *)
(* processed, so tickets are taken in delivery order; processing it adds  *)
(* at most one event, at the end of the log, of type 'Added' or 'Updated' *)
(* and with the key of that ticket; no other step adds an event.          *)
C21_EventsInDeliveryOrder ==
    [][ /\ delivered' # delivered =>
              /\ batch # <<>>
              /\ delivered' = Append(delivered, Head(batch))
              /\ batch' = Tail(batch)
              /\ \/ log' = log
                 \/ \E type \in {"Added", "Updated"} :
                       log' = Append(log, Event(type, Head(batch).key))
        /\ delivered' = delivered => log' = log ]_vars

C21_Witness ==
    /\ pc = "done"
    /\ Len(delivered) = 3
    /\ delivered[1] # delivered[2]
    /\ Len(requests) = 2
    /\ log = <<Event("Added", delivered[1].key), Event("Updated", delivered[3].key)>>

\* the last delivery of a ticket with this key
LastDeliveryOf(key) ==
    delivered[CHOOSE i \in 1..Len(delivered) :
                 /\ delivered[i].key = key
                 /\ \A j \in (i + 1)..Len(delivered) : delivered[j].key # key]

(* C27: when a key of the stored collection was delivered more than once  *)
(* in the run, the record written for it is unmodified with respect to    *)
(* the last delivered version.                                            *)
C27_LastDeliveredWins ==
    pc = "done" =>
        \A k \in KeysOf(existing_issues) :
            CountKey(delivered, k) > 1 =>
                \A i \in 1..Len(output_file.data) :
                    output_file.data[i].key = k =>
                        ~is_issue_modified(output_file.data[i], LastDeliveryOf(k))

\* the stored records whose key was never replaced in the run
KeptRecords ==
    SelectSeq(initial_file.data, LAMBDA r : Event("Updated", r.key) \notin Range(log))

\* the events that put a record at the end of the list and left it there:
\* an 'Updated' event is dropped when the key is updated again later
RECURSIVE FinalEvents(_)
FinalEvents(events) ==
    IF events = <<>> THEN <<>>
    ELSE IF Head(events).type = "Updated" /\ Head(events) \in Range(Tail(events))
         THEN FinalEvents(Tail(events))
         ELSE <<Head(events)>> \o FinalEvents(Tail(events))

KeySeq(records) == [i \in 1..Len(records) |-> records[i].key]

(* C28: the written array is the stored records that were not replaced,   *)
(* in their order in the stored file, followed by the replaced and the    *)
(* new records in the order of their events.                              *)
C28_WrittenOrder ==
    pc = "done" =>
        LET written == output_file.data
            n == Len(KeptRecords)
        IN  /\ Len(written) >= n
            /\ SubSeq(written, 1, n) = KeptRecords
            /\ KeySeq(SubSeq(written, n + 1, Len(written))) = KeySeq(FinalEvents(log))

\* the same, for a stored file with one record per key
WrittenOrderOfUniqueFile ==
    UniqueKeys(initial_file.data) => C28_WrittenOrder

----------------------------------------------------------------------------
(* Further properties of clean_text and is_issue_modified, under SpecCmp *)

(* C25: clean_text applied to a value that clean_text produced (the       *)
(* summary and the description extract_issue_data stores) gives the same  *)
(* value again.                                                           *)
C25_CleanTextIdempotent ==
    (cmp_pc = "roundtrip" /\ outcome # "raised") =>
        /\ clean_text(existing_issue.summary) = existing_issue.summary
        /\ clean_text(existing_issue.description) = existing_issue.description

Reporters == {<<"u1">>, <<"u2">>, None}
Created   == {<<"t1">>, <<"t2">>}
Authors   == {<<"u1">>, <<"u2">>}

\* the ticket with another reporter, creation time and comment authors
WithMetadata(ticket, reporter, created, authors) ==
    [ticket EXCEPT !.reporter = reporter, !.created = created,
                   !.comment.comments =
                       [i \in 1..Len(@) |-> RawComment(authors[i], @[i].body)]]

AuthorsOf(ticket) ==
    [i \in 1..Len(ticket.comment.comments) |-> ticket.comment.comments[i].author]

\* tickets that differ from the ticket at most in reporter, created and the
\* authors of the comments: every reporter and creation time with the authors
\* as they are, and every choice of authors with another reporter and time
SameButMetadata(ticket) ==
    { WithMetadata(ticket, rp, cr, AuthorsOf(ticket)) :
        rp \in Reporters, cr \in Created }
    \cup { WithMetadata(ticket, <<"u2">>, <<"t2">>, au) :
             au \in [1..Len(ticket.comment.comments) -> Authors] }

(* C26: a ticket that differs from the fetched one only in reporter,      *)
(* created or comment authors gives the same result of is_issue_modified  *)
(* against the stored record.                                             *)
C26_MetadataIgnored ==
    cmp_pc = "compared" =>
        \A other \in SameButMetadata(new_issue) :
            Compare(existing_issue, other) = outcome

C26_Witness ==
    /\ cmp_pc = "compared"
    /\ outcome = "unmodified"
    /\ Len(FetchedComments) = 1
    /\ Len(existing_issue.comments) = 1
    /\ existing_issue.comments[1].author = <<"u1">>
    /\ FetchedComments[1].author = <<"u2">>
    /\ Cardinality(SameButMetadata(new_issue)) > 1

----------------------------------------------------------------------------
(* process_labels_and_create_status_report, in its three versions         *)
(*                                                                         *)
(* A text is again a sequence of units.  The label names are written in   *)
(* the units "oneview_triagex", "_" and "failed" / "success", so that the *)
(* substring tests, the lower-casing and the regular expressions of the   *)
(* code see what they see in the strings.  "K1" and "K2" are JIRA keys    *)
(* (text matching [A-Z]+-\d+), "x" is any other word.                     *)

MaxRows == 3

OT    == "oneview_triagex"
OT_UC == "ONEVIEW_TRIAGEX"
US    == "_"

FailedLabel  == <<OT, US, "failed">>
SuccessLabel == <<OT, US, "success">>

\* str.lower(), unit by unit
lower(text) ==
    [i \in 1..Len(text) |->
        CASE text[i] = OT_UC     -> OT
          [] text[i] = "FAILED"  -> "failed"
          [] text[i] = "SUCCESS" -> "success"
          [] OTHER               -> text[i]]

\* pattern in text
Contains(text, pattern) ==
    \E i \in 1..(Len(text) - Len(pattern) + 1) :
        SubSeq(text, i, i + Len(pattern) - 1) = pattern

\* the if / elif with the success label tested first
label_status_success_first(labels) ==
    IF Contains(labels, SuccessLabel) THEN <<"Success">>
    ELSE IF Contains(labels, FailedLabel) THEN <<"Failed">>
    ELSE None

\* jira_table_analyze 163-167, desktop 128-139: the if / elif on the labels
label_status(labels) ==
    IF Contains(labels, FailedLabel) THEN <<"Failed">>
    ELSE IF Contains(labels, SuccessLabel) THEN <<"Success">>
    ELSE None

\* jira_table_analyze 156-157: labels and created_date of the row
analyzer_labels(row) == IF row.Labels # None THEN lower(row.Labels) ELSE <<>>

analyzer_date(row) == IF row.Created # None THEN row.Created ELSE <<>>

\* the link: the configured jira_url in the analyzer, a fixed host elsewhere
Link(base, key) == [base |-> base, key |-> key]

\* jira_table_analyze 160-176
analyzer_report_row(row) ==
    [JIRA_ID |-> row.Key, Status |-> label_status(analyzer_labels(row)),
     Date |-> analyzer_date(row), Link |-> Link("jira_url", row.Key)]

\* desktop 125-139
desktop_report_row(row) ==
    [JIRA_ID |-> row.Key, Link |-> Link("jira-sd.mc1.oracleiaas.com", row.Key),
     Status |-> label_status(row.Labels)]

\* the report row one iteration of the loop makes, appended when it has a status
report_row(version, row) ==
    IF version = "analyzer" THEN analyzer_report_row(row) ELSE desktop_report_row(row)

\* create_html_report 222-227, print_status_report: the three counts
total(status_df) == Len(status_df)

count_status(status_df, status) ==
    Cardinality({ i \in 1..Len(status_df) : status_df[i].Status = status })

TableRow(key, labels, created) == [Key |-> key, Labels |-> labels, Created |-> created]

\* the Labels cells of the input tables of the analyzer and the desktop version
LabelTexts ==
    { <<>>,
      <<"x", SP>> \o FailedLabel,
      SuccessLabel,
      SuccessLabel \o <<SP>> \o FailedLabel,
      <<OT_UC, US, "FAILED">> }

LabelTableRows ==
    { TableRow(k, l, <<"t1">>) : k \in {<<"K1">>, <<"K2">>}, l \in LabelTexts }

(* The antigravity version reads a table that came out of the OCR: a row  *)
(* is the list of its cells, the key column is the first one (the column  *)
(* named like 'key', or the fallback of line 148).  A frame without       *)
(* columns, for which line 151 returns at once, is left out.              *)
JoinWithSpace(texts) ==
    IF texts = <<>> THEN <<>>
    ELSE LET F[i \in 1..Len(texts)] ==
                 IF i = 1 THEN texts[1] ELSE F[i - 1] \o <<SP>> \o texts[i]
         IN  F[Len(texts)]

\* line 161: the cells that are not NaN, joined by a space
row_text(row) == JoinWithSpace(SelectSeq(row, LAMBDA val : val # None))

IsKey(unit) == unit \in {"K1", "K2"}

\* line 165: re.search(r'([A-Z]+-\d+)', str(row[key_col])), None or group(1)
key_match(row) ==
    LET cell == IF row[1] = None THEN <<"nan">> ELSE row[1]
    IN  IF \E i \in 1..Len(cell) : IsKey(cell[i])
        THEN <<cell[CHOOSE i \in 1..Len(cell) :
                       IsKey(cell[i]) /\ \A j \in 1..(i - 1) : ~IsKey(cell[j])]>>
        ELSE None

\* lines 171-175 and 196-200: the two regular expressions
text_status(text) ==
    IF Contains(text, <<OT, SP, "failed">>) \/ Contains(text, <<OT, US, "failed">>)
    THEN <<"Failed">>
    ELSE IF \/ Contains(text, <<OT, SP, "success">>)
            \/ Contains(text, <<OT, US, "success">>)
    THEN <<"Success">>
    ELSE None

\* lines 177-183 and 202-208: the report row of the item, if it has a status
item_report(key, text) ==
    IF key # None /\ text_status(text) # None
    THEN <<[JIRA_ID |-> key, Status |-> text_status(text),
            Link |-> Link("jira-sd.mc1.oracleiaas.com", key)]>>
    ELSE <<>>

\* the text of a new item that keeps the text of the item before it
start_item_keeping_text(text, row) == text \o <<SP>> \o row_text(row)

\* line 187: the text of a new item starts with its key row
start_item(text, row) == row_text(row)

OcrKeyCells == { <<>>, <<"K1">>, <<"x", SP, "K2">>, <<"failed">> }

OcrLabelCells == { FailedLabel, <<OT, SP, "success">>, <<OT>> }

OcrTableRows == { <<k, l>> : k \in OcrKeyCells, l \in OcrLabelCells }

Versions == {"analyzer", "desktop", "antigravity"}

InitReport ==
    /\ IdleCmp /\ IdleSync /\ IdleRun /\ IdleOcr
    /\ impl \in Versions
    /\ df \in SeqsUpTo(IF impl = "antigravity" THEN OcrTableRows ELSE LabelTableRows,
                       MaxRows)
    /\ row_no = 1
    /\ report_data = <<>>
    /\ current_key = None
    /\ current_labels_text = <<>>
    /\ tpc = "rows"

\* one iteration of the loop of the analyzer (154-176) or the desktop (120-143)
ProcessRow ==
    /\ tpc = "rows"
    /\ impl \in {"analyzer", "desktop"}
    /\ row_no <= Len(df)
    /\ LET new_row == report_row(impl, df[row_no])
       IN  report_data' = IF new_row.Status # None
                          THEN Append(report_data, new_row) ELSE report_data
    /\ row_no' = row_no + 1
    /\ UNCHANGED <<impl, df, current_key, current_labels_text, tpc>>
    /\ UNCHANGED <<cmp_vars, sync_vars, run_vars, ocr_vars>>

\* self.status_df = pd.DataFrame(report_data) after the loop
FinishReport ==
    /\ tpc = "rows"
    /\ impl \in {"analyzer", "desktop"}
    /\ row_no > Len(df)
    /\ tpc' = "done"
    /\ UNCHANGED <<cmp_vars, sync_vars, report_vars, run_vars, ocr_vars>>

\* antigravity 159-191: one iteration of the loop over the rows
AggregateRow ==
    /\ tpc = "rows"
    /\ impl = "antigravity"
    /\ row_no <= Len(df)
    /\ LET row == df[row_no]
       IN  IF key_match(row) # None
           THEN /\ report_data' =
                      report_data \o item_report(current_key, current_labels_text)
                /\ current_key' = key_match(row)
                /\ current_labels_text' = start_item(current_labels_text, row)
           ELSE /\ current_labels_text' =
                      IF current_key # None
                      THEN current_labels_text \o <<SP>> \o row_text(row)
                      ELSE current_labels_text
                /\ UNCHANGED <<report_data, current_key>>
    /\ row_no' = row_no + 1
    /\ UNCHANGED <<impl, df, tpc>>
    /\ UNCHANGED <<cmp_vars, sync_vars, run_vars, ocr_vars>>

\* antigravity 193-210: the last item, and the frame of the report
FlushLastItem ==
    /\ tpc = "rows"
    /\ impl = "antigravity"
    /\ row_no > Len(df)
    /\ report_data' = report_data \o item_report(current_key, current_labels_text)
    /\ tpc' = "done"
    /\ UNCHANGED <<impl, df, row_no, current_key, current_labels_text>>
    /\ UNCHANGED <<cmp_vars, sync_vars, run_vars, ocr_vars>>

NextReport == ProcessRow \/ FinishReport \/ AggregateRow \/ FlushLastItem

SpecReport == InitReport /\ [][NextReport]_vars

----------------------------------------------------------------------------
(* JiraTableAnalyzer.run and fetch_issues_from_jira *)

\* reports/ as a directory: whether it exists and the files in it, in the
\* order they were written
Dir(exists, files) == [exists |-> exists, files |-> files]

ReportFiles == <<"jira_table.csv", "jira_status_report.csv", "jira_status_report.html">>

\* an issue of the reply: its key, its list of labels and its creation time
Issue(key, labels, created) == [key |-> key, labels |-> labels, created |-> created]

\* issue.fields.created.split('T')[0]
RECURSIVE before_T(_)
before_T(text) ==
    IF text = <<>> \/ Head(text) = "T" THEN <<>>
    ELSE <<Head(text)>> \o before_T(Tail(text))

\* lines 81-112: the row of the table made from an issue (the columns the
\* report reads)
issue_row(issue) ==
    TableRow(issue.key,
             IF issue.labels # <<>> THEN JoinWithSpace(issue.labels) ELSE <<>>,
             IF Truthy(issue.created) THEN before_T(issue.created) ELSE <<>>)

\* lines 70-119: the table, empty when search_issues or the conversion raises
fetch_issues_from_jira(reply) ==
    IF reply.raises THEN <<>>
    ELSE [i \in 1..Len(reply.issues) |-> issue_row(reply.issues[i])]

\* lines 152-178, the whole loop
RECURSIVE analyzer_status_report(_)
analyzer_status_report(table) ==
    IF table = <<>> THEN <<>>
    ELSE LET new_row == analyzer_report_row(Head(table))
         IN  (IF new_row.Status # None THEN <<new_row>> ELSE <<>>)
             \o analyzer_status_report(Tail(table))

Issues ==
    { Issue(k, l, c) :
        k \in {<<"K1">>, <<"K2">>},
        l \in { <<>>, <<FailedLabel>>, << <<"x">>, <<OT_UC, US, "SUCCESS">> >> },
        c \in { <<"d1", "T", "h1">>, None } }

InitialDirs ==
    { Dir(FALSE, <<>>), Dir(TRUE, <<>>), Dir(TRUE, <<"old.txt">>),
      Dir(TRUE, ReportFiles) }

InitRun ==
    /\ IdleCmp /\ IdleSync /\ IdleOcr
    /\ impl = "analyzer"
    /\ df = <<>>
    /\ row_no = 1
    /\ report_data = <<>>
    /\ current_key = None
    /\ current_labels_text = <<>>
    /\ reports_dir \in InitialDirs
    /\ initial_dir = reports_dir
    /\ jira_reply \in
          { [raises |-> TRUE, issues |-> <<>>] }
          \cup { [raises |-> FALSE, issues |-> is] : is \in SeqsUpTo(Issues, MaxRows) }
    /\ tpc = "setup"

\* makedirs(exist_ok) in place of rmtree and makedirs
SetupDirKeepingFiles ==
    /\ tpc = "setup"
    /\ reports_dir' = Dir(TRUE, reports_dir.files)
    /\ tpc' = "fetch"
    /\ UNCHANGED <<initial_dir, jira_reply>>
    /\ UNCHANGED <<cmp_vars, sync_vars, report_vars, ocr_vars>>

\* lines 452-458: rmtree if the directory exists, then makedirs
SetupDir ==
    /\ tpc = "setup"
    /\ reports_dir' = Dir(TRUE, <<>>)
    /\ tpc' = "fetch"
    /\ UNCHANGED <<initial_dir, jira_reply>>
    /\ UNCHANGED <<cmp_vars, sync_vars, report_vars, ocr_vars>>

\* lines 462-466: the fetch; run returns when the table is empty
FetchIssues ==
    /\ tpc = "fetch"
    /\ df' = fetch_issues_from_jira(jira_reply)
    /\ tpc' = IF df' = <<>> THEN "returned" ELSE "save_table"
    /\ UNCHANGED <<impl, row_no, report_data, current_key, current_labels_text>>
    /\ UNCHANGED <<cmp_vars, sync_vars, run_vars, ocr_vars>>

\* to_csv / the HTML file written into reports/
write_file(dir, name) ==
    Dir(dir.exists, Append(SelectSeq(dir.files, LAMBDA f : f # name), name))

\* line 470
SaveTable ==
    /\ tpc = "save_table"
    /\ reports_dir' = write_file(reports_dir, ReportFiles[1])
    /\ tpc' = "process"
    /\ UNCHANGED <<initial_dir, jira_reply>>
    /\ UNCHANGED <<cmp_vars, sync_vars, report_vars, ocr_vars>>

\* line 478
ProcessLabels ==
    /\ tpc = "process"
    /\ report_data' = analyzer_status_report(df)
    /\ tpc' = "save_status"
    /\ UNCHANGED <<impl, df, row_no, current_key, current_labels_text>>
    /\ UNCHANGED <<cmp_vars, sync_vars, run_vars, ocr_vars>>

\* line 482
SaveStatus ==
    /\ tpc = "save_status"
    /\ reports_dir' = write_file(reports_dir, ReportFiles[2])
    /\ tpc' = "html"
    /\ UNCHANGED <<initial_dir, jira_reply>>
    /\ UNCHANGED <<cmp_vars, sync_vars, report_vars, ocr_vars>>

\* line 486
CreateHtml ==
    /\ tpc = "html"
    /\ reports_dir' = write_file(reports_dir, ReportFiles[3])
    /\ tpc' = "done"
    /\ UNCHANGED <<initial_dir, jira_reply>>
    /\ UNCHANGED <<cmp_vars, sync_vars, report_vars, ocr_vars>>

NextRun ==
    SetupDir \/ FetchIssues \/ SaveTable \/ ProcessLabels \/ SaveStatus \/ CreateHtml

SpecRun == InitRun /\ [][NextRun]_vars

----------------------------------------------------------------------------
(* extract_table_from_image of jira_table_processor_antigravity: from the  *)
(* boxes of pytesseract.image_to_data to the DataFrame.  A word is a box   *)
(* with text; id is its index in the frame df_words, and a cell is the     *)
(* list of the ids of the words whose texts " ".join puts into it.         *)

MaxWords == 3

row_tolerance == 15

column_gap_threshold == 40

Box(text, x, y, w) == [text |-> text, x |-> x, y |-> y, w |-> w]

Word(id, box) == [id |-> id, text |-> box.text, x |-> box.x, y |-> box.y, w |-> box.w]

Abs(n) == IF n < 0 THEN -n ELSE n

\* lines 43-52: the boxes whose stripped text is not empty, indexed from 0
parse_boxes(boxes) ==
    LET kept == SelectSeq(boxes, LAMBDA b : b.text # "")
    IN  [i \in 1..Len(kept) |-> Word(i - 1, kept[i])]

Orders(n) ==
    { f \in [1..n -> 1..n] : \A i, j \in 1..n : f[i] = f[j] => i = j }

\* sort_values(by=column): the orders of the rows that ascend in the column;
\* the default quicksort leaves the order of rows with equal values open
sort_values(rows, column) ==
    { [i \in 1..Len(rows) |-> rows[f[i]]] :
        f \in { g \in Orders(Len(rows)) :
                  \A i \in 1..(Len(rows) - 1) :
                      rows[g[i]][column] <= rows[g[i + 1]][column] } }

\* the grouping with the reference y moved to every word
group_rows_following(sorted) ==
    LET F[i \in 0..Len(sorted)] ==
            IF i = 0 THEN [index |-> -1, y |-> -100, indices |-> <<>>]
            ELSE LET prev == F[i - 1]
                     new == Abs(sorted[i].y - prev.y) > row_tolerance
                     index == IF new THEN prev.index + 1 ELSE prev.index
                 IN  [index |-> index, y |-> sorted[i].y,
                      indices |-> Append(prev.indices, index)]
    IN  F[Len(sorted)].indices

\* lines 62-72: row_indices; current_row_y changes only when a row starts
group_rows(sorted) ==
    LET F[i \in 0..Len(sorted)] ==
            IF i = 0 THEN [index |-> -1, y |-> -100, indices |-> <<>>]
            ELSE LET prev == F[i - 1]
                     new == Abs(sorted[i].y - prev.y) > row_tolerance
                     index == IF new THEN prev.index + 1 ELSE prev.index
                 IN  [index |-> index, y |-> IF new THEN sorted[i].y ELSE prev.y,
                      indices |-> Append(prev.indices, index)]
    IN  F[Len(sorted)].indices

\* a float of the gap column: NaN, or a number
NaN == [isnan |-> TRUE, value |-> 0]

Float(n) == [isnan |-> FALSE, value |-> n]

\* lines 84-86: the gap after each word of the row, NaN after the last
gaps(row_data) ==
    [i \in 1..Len(row_data) |->
        IF i = Len(row_data) THEN NaN
        ELSE Float(row_data[i + 1].x - (row_data[i].x + row_data[i].w))]

\* the test of line 96 without the NaN of the last word
closes_cell_on_gap_only(gap) == ~gap.isnan /\ gap.value > column_gap_threshold

\* line 96
closes_cell(gap) == gap.isnan \/ gap.value > column_gap_threshold

\* lines 90-98: the cells of a row whose words are sorted by x
row_cells(row_data) ==
    LET F[i \in 0..Len(row_data)] ==
            IF i = 0 THEN [cells |-> <<>>, current |-> <<>>]
            ELSE LET prev == F[i - 1]
                     current == Append(prev.current, row_data[i].id)
                 IN  IF closes_cell(gaps(row_data)[i])
                     THEN [cells |-> Append(prev.cells, current), current |-> <<>>]
                     ELSE [cells |-> prev.cells, current |-> current]
    IN  F[Len(row_data)].cells

\* df_words[df_words['row_index'] == r_idx]
words_of_row(sorted, indices, r_idx) ==
    LET at == SelectSeq([i \in 1..Len(sorted) |-> i], LAMBDA i : indices[i] = r_idx)
    IN  [k \in 1..Len(at) |-> sorted[at[k]]]

\* line 103
max_cols(rows) ==
    IF rows = <<>> THEN 0
    ELSE CHOOSE m \in { Len(rows[i]) : i \in 1..Len(rows) } :
             \A i \in 1..Len(rows) : Len(rows[i]) <= m

\* lines 106-110: every row extended by empty cells to max_cols
padded_rows(rows) ==
    [i \in 1..Len(rows) |->
        rows[i] \o [k \in 1..(max_cols(rows) - Len(rows[i])) |-> <<>>]]

\* pd.DataFrame(data, columns=headers); pd.DataFrame() has neither
DataFrame(headers, rows) == [headers |-> headers, rows |-> rows]

\* lines 112-121: the first row is the header (its cleaned texts stand as the
\* cells here), the other rows are the data
make_frame(rows) ==
    IF rows # <<>>
    THEN DataFrame(padded_rows(rows)[1], Tail(padded_rows(rows)))
    ELSE DataFrame(<<>>, <<>>)

Boxes ==
    { Box("", 0, 0, 10) }
    \cup { Box("w", x, y, 10) : x \in {0, 50, 101}, y \in {0, 15, 16, 32} }

InitOcr ==
    /\ IdleCmp /\ IdleSync /\ IdleReport /\ IdleRun
    /\ words \in SeqsUpTo(Boxes, MaxWords)
    /\ df_words = <<>>
    /\ row_indices = <<>>
    /\ table_rows = <<>>
    /\ frame = None
    /\ tpc = "parse"

\* lines 43-61: the words, sorted by y; without a word the empty frame
ParseAndSort ==
    /\ tpc = "parse"
    /\ IF parse_boxes(words) = <<>>
       THEN /\ frame' = DataFrame(<<>>, <<>>)
            /\ tpc' = "done"
            /\ UNCHANGED df_words
       ELSE /\ df_words' \in sort_values(parse_boxes(words), "y")
            /\ tpc' = "group"
            /\ UNCHANGED frame
    /\ UNCHANGED <<words, row_indices, table_rows>>
    /\ UNCHANGED <<cmp_vars, sync_vars, report_vars, run_vars>>

\* lines 62-74
GroupRows ==
    /\ tpc = "group"
    /\ row_indices' = group_rows(df_words)
    /\ tpc' = "cells"
    /\ UNCHANGED <<words, df_words, table_rows, frame>>
    /\ UNCHANGED <<cmp_vars, sync_vars, report_vars, run_vars>>

\* the row indices in df_words['row_index'].unique()
NumRows == Cardinality({ row_indices[i] : i \in 1..Len(row_indices) })

\* lines 80-100: one iteration of the loop over unique_rows
BuildRow ==
    /\ tpc = "cells"
    /\ Len(table_rows) < NumRows
    /\ \E row_data \in sort_values(
                          words_of_row(df_words, row_indices, Len(table_rows)), "x") :
          table_rows' = Append(table_rows, row_cells(row_data))
    /\ UNCHANGED <<words, df_words, row_indices, frame, tpc>>
    /\ UNCHANGED <<cmp_vars, sync_vars, report_vars, run_vars>>

\* lines 103-121
MakeFrame ==
    /\ tpc = "cells"
    /\ Len(table_rows) = NumRows
    /\ frame' = make_frame(table_rows)
    /\ tpc' = "done"
    /\ UNCHANGED <<words, df_words, row_indices, table_rows>>
    /\ UNCHANGED <<cmp_vars, sync_vars, report_vars, run_vars>>

NextOcr == ParseAndSort \/ GroupRows \/ BuildRow \/ MakeFrame

SpecOcr == InitOcr /\ [][NextOcr]_vars

----------------------------------------------------------------------------
(* Properties of the status reports, checked under SpecReport *)

\* the rule of the report: 'Failed' before 'Success', None for neither
StatusByRule(has_failed, has_success) ==
    IF has_failed THEN <<"Failed">> ELSE IF has_success THEN <<"Success">> ELSE None

\* the rows the loop has visited
Visited == SubSeq(df, 1, row_no - 1)

\* report_data is what the rule gives for the visited rows: one report row for
\* each visited row with a status, in the order of the table
ReportFollows(Status(_)) ==
    LET chosen == SelectSeq(Visited, LAMBDA row : Status(row) # None)
    IN  /\ Len(report_data) = Len(chosen)
        /\ \A i \in 1..Len(chosen) :
              /\ report_data[i].JIRA_ID = chosen[i].Key
              /\ report_data[i].Status = Status(chosen[i])
        /\ \A i \in 1..Len(report_data) :
              report_data[i].Status \in {<<"Success">>, <<"Failed">>}
        /\ total(report_data) = count_status(report_data, <<"Success">>)
                                + count_status(report_data, <<"Failed">>)

\* the status by the labels of the row as they are written
StatusOfLabels(row) ==
    StatusByRule(Contains(row.Labels, FailedLabel), Contains(row.Labels, SuccessLabel))

\* the status by the labels as the version reads them: JiraTableAnalyzer
\* lower-cases them first, the desktop version takes them as they are
StatusOfLabelsRead(row) ==
    LET labels == IF impl = "analyzer" THEN lower(row.Labels) ELSE row.Labels
    IN  StatusByRule(Contains(labels, FailedLabel), Contains(labels, SuccessLabel))

(* C22: in the analyzer and in the desktop version every row of the table *)
(* gives at most one report row, 'Failed' if its labels contain            *)
(* 'oneview_triagex_failed', otherwise 'Success' if they contain           *)
(* 'oneview_triagex_success', otherwise none; the report keeps the order   *)
(* of the table, holds only these two statuses, and its total is the sum   *)
(* of the two counts.                                                      *)
C22_LabelStatusReport ==
    impl \in {"analyzer", "desktop"} => ReportFollows(StatusOfLabels)

(* C22 as amended: the same, with the labels tested as the version reads  *)
(* them, lower-cased in JiraTableAnalyzer and unchanged in the desktop    *)
(* version.                                                               *)
C22_LabelStatusReportAsRead ==
    impl \in {"analyzer", "desktop"} => ReportFollows(StatusOfLabelsRead)

C22_Witness ==
    /\ tpc = "done"
    /\ impl = "analyzer"
    /\ Len(df) = 3
    /\ df[1].Labels = <<>>
    /\ df[2].Labels = SuccessLabel \o <<SP>> \o FailedLabel
    /\ df[3].Labels = <<OT_UC, US, "FAILED">>
    /\ Len(report_data) = 2
    /\ report_data[1].Status = <<"Failed">>
    /\ report_data[2].JIRA_ID = df[3].Key

\* the rows of the table that start an item
KeyRows == { i \in 1..Len(df) : key_match(df[i]) # None }

\* the last row of the item that starts at row i
ItemEnd(i) ==
    IF \E j \in KeyRows : j > i
    THEN (CHOOSE j \in KeyRows : j > i /\ \A k \in KeyRows : k > i => j <= k) - 1
    ELSE Len(df)

\* the text of the key row i and of the keyless rows after it
ItemText(i) ==
    JoinWithSpace([k \in 1..(ItemEnd(i) - i + 1) |-> row_text(df[i + k - 1])])

HasLabel(text, word) ==
    Contains(text, <<OT, US, word>>) \/ Contains(text, <<OT, SP, word>>)

ItemStatus(i) ==
    StatusByRule(HasLabel(ItemText(i), "failed"), HasLabel(ItemText(i), "success"))

\* the key rows whose item has a status, in the order of the table
ReportedItems ==
    SelectSeq([i \in 1..Len(df) |-> i],
              LAMBDA i : i \in KeyRows /\ ItemStatus(i) # None)

(* C23: the report of the antigravity version has one row for each key    *)
(* row whose item text (the key row and the keyless rows up to the next   *)
(* key row) holds a failed or a success label, 'Failed' first, in the     *)
(* order of the table and with the key of the key row; rows before the    *)
(* first key and items without a label give nothing.                      *)
C23_ItemsAggregated ==
    (tpc = "done" /\ impl = "antigravity") =>
        /\ Len(report_data) = Len(ReportedItems)
        /\ \A n \in 1..Len(ReportedItems) :
              /\ report_data[n].JIRA_ID = key_match(df[ReportedItems[n]])
              /\ report_data[n].Status = ItemStatus(ReportedItems[n])

C23_Witness ==
    /\ tpc = "done"
    /\ impl = "antigravity"
    /\ Len(df) = 3
    /\ key_match(df[1]) = None
    /\ Contains(row_text(df[1]), FailedLabel)
    /\ key_match(df[2]) = <<"K1">>
    /\ HasLabel(row_text(df[2]), "success")
    /\ key_match(df[3]) = <<"K2">>
    /\ df[3][2] = <<OT>>
    /\ Len(report_data) = 1
    /\ report_data[1].JIRA_ID = <<"K1">>
    /\ report_data[1].Status = <<"Success">>

----------------------------------------------------------------------------
(* Properties of JiraTableAnalyzer.run, checked under SpecRun *)

IsPrefix(short, long) ==
    Len(short) <= Len(long) /\ short = SubSeq(long, 1, Len(short))

Fetched == tpc \notin {"setup", "fetch"}

(* C24: when the fetch starts reports/ exists and is empty; a reply that  *)
(* raises gives the empty table; with an empty table run returns and      *)
(* reports/ stays empty; with a table that has rows run ends with the     *)
(* table CSV, the status CSV and the HTML report written in this order.   *)
C24_RunWritesAllOrNothing ==
    /\ tpc = "fetch" => reports_dir = Dir(TRUE, <<>>)
    /\ Fetched =>
          /\ reports_dir.exists
          /\ jira_reply.raises => df = <<>>
          /\ df = <<>> <=> tpc = "returned"
          /\ IsPrefix(reports_dir.files, ReportFiles)
    /\ tpc = "returned" => reports_dir.files = <<>>
    /\ tpc = "done" => (df # <<>> /\ reports_dir.files = ReportFiles)

C24_Witness ==
    /\ tpc = "returned"
    /\ jira_reply.raises
    /\ initial_dir.files # <<>>
    /\ reports_dir = Dir(TRUE, <<>>)

----------------------------------------------------------------------------
(* Properties of extract_table_from_image, checked under SpecOcr *)

Grouped == tpc \in {"cells", "done"} /\ df_words # <<>>

\* the first word, in ascending y, of the row that word i is in
FirstOfRow(i) ==
    CHOOSE j \in 1..i :
        /\ row_indices[j] = row_indices[i]
        /\ \A k \in 1..(j - 1) : row_indices[k] # row_indices[i]

(* C29: the words are visited in ascending y and each gets one row index; *)
(* the first index is 0; a word starts a new row, with the next index,    *)
(* exactly when its y is more than 15 away from the y of the first word   *)
(* of the current row, and else stays in the current row; so every word   *)
(* of a row lies within 15 of the first word of the row.                  *)
C29_RowGrouping ==
    Grouped =>
        /\ Len(row_indices) = Len(df_words)
        /\ { df_words[i].id : i \in 1..Len(df_words) } = 0..(Len(df_words) - 1)
        /\ \A i \in 1..(Len(df_words) - 1) : df_words[i].y <= df_words[i + 1].y
        /\ row_indices[1] = 0
        /\ \A i \in 2..Len(df_words) :
              IF Abs(df_words[i].y - df_words[FirstOfRow(i - 1)].y) > 15
              THEN row_indices[i] = row_indices[i - 1] + 1
              ELSE row_indices[i] = row_indices[i - 1]
        /\ \A i \in 1..Len(df_words) :
              Abs(df_words[i].y - df_words[FirstOfRow(i)].y) <= 15

C29_Witness ==
    /\ Grouped
    /\ Len(df_words) = 3
    /\ df_words[1].y = 0
    /\ df_words[2].y = 15
    /\ df_words[3].y = 16
    /\ row_indices = <<0, 0, 1>>

RECURSIVE Flatten(_)
Flatten(seqs) == IF seqs = <<>> THEN <<>> ELSE Head(seqs) \o Flatten(Tail(seqs))

\* the word of df_words with this id
WordOf(id) == df_words[CHOOSE i \in 1..Len(df_words) : df_words[i].id = id]

\* the ids of the words of row r (r counted from 0)
IdsOfRow(r) == { df_words[i].id : i \in { j \in 1..Len(df_words) : row_indices[j] = r } }

\* the cells of a built row hold the words of the row once each, in ascending
\* x, and two neighbours are in different cells exactly when the gap between
\* them is above 40
CellsOfRow(r) ==
    LET cells == table_rows[r + 1]
        ids == Flatten(cells)
        cell_of == Flatten([c \in 1..Len(cells) |-> [k \in 1..Len(cells[c]) |-> c]])
    IN  /\ Len(ids) = Cardinality(IdsOfRow(r))
        /\ { ids[i] : i \in 1..Len(ids) } = IdsOfRow(r)
        /\ \A c \in 1..Len(cells) : cells[c] # <<>>
        /\ \A i \in 1..(Len(ids) - 1) :
              /\ WordOf(ids[i]).x <= WordOf(ids[i + 1]).x
              /\ cell_of[i] # cell_of[i + 1]
                    <=> WordOf(ids[i + 1]).x - (WordOf(ids[i]).x + WordOf(ids[i]).w) > 40

(* C30: every built row holds each of its words in exactly one cell, cut  *)
(* exactly at the gaps above 40; the frame has the first row as header,   *)
(* one row fewer than the rows detected, and every row of it, like the    *)
(* header, has as many cells as the widest row.                           *)
C30_CellReconstruction ==
    /\ Grouped => \A r \in 0..(Len(table_rows) - 1) : CellsOfRow(r)
    /\ (tpc = "done" /\ df_words # <<>>) =>
          /\ Len(table_rows) = NumRows
          /\ Len(frame.rows) = Len(table_rows) - 1
          /\ Len(frame.headers) = max_cols(table_rows)
          /\ \A r \in 1..Len(table_rows) : Len(table_rows[r]) <= Len(frame.headers)
          /\ \E r \in 1..Len(table_rows) : Len(table_rows[r]) = Len(frame.headers)
          /\ \A i \in 1..Len(frame.rows) :
                /\ Len(frame.rows[i]) = Len(frame.headers)
                /\ SubSeq(frame.rows[i], 1, Len(table_rows[i + 1])) = table_rows[i + 1]
          /\ SubSeq(frame.headers, 1, Len(table_rows[1])) = table_rows[1]

C30_Witness ==
    /\ tpc = "done"
    /\ Len(df_words) = 3
    /\ Len(table_rows) = 2
    /\ Len(table_rows[1]) = 1
    /\ Len(table_rows[1][1]) = 2
    /\ Len(table_rows[2]) = 1
    /\ frame.rows = <<table_rows[2]>>

====
